---- MODULE Spec2Model ----
(***************************************************************************)
(* Sheet-music reading pipeline: the ABC repair function                   *)
(* (validateAndFixAbc), the critical-error predicate (hasCriticalErrors),  *)
(* the multi-pass POST handler of api/read-music, the upload handler of    *)
(* the arrange page, and the image module: enhanceContrastData,            *)
(* measureContrast, measureSharpness, assessImageQuality, preprocessImage. *)
(*                                                                         *)
(* Text is a sequence of one-character strings; "\n" is the line feed.     *)
(***************************************************************************)
EXTENDS Integers, Sequences, FiniteSets, TLC

VARIABLES sess, rep, cond, px, qa

vars == <<sess, rep, cond, px, qa>>

(***************************************************************************)
(* Characters and the regular-expression character classes the code uses.  *)
(***************************************************************************)
NL == "\n"

\* The backtick character of a markdown code fence (the lexer of TLA+ has no
\* literal for it, so it is written as a token).
Backtick == "<backtick>"

\* String.prototype.trim and the \s class: white space and line terminators.
WhiteSpace == {" ", "\n", "\t", "\r"}

\* ^ under the m flag matches after a line terminator.
LineTerminators == {"\n", "\r"}

Digits == {"0", "1", "2", "3", "4", "5", "6", "7", "8", "9"}

UpperCase ==
    {"A", "B", "C", "D", "E", "F", "G", "H", "I", "J", "K", "L", "M",
     "N", "O", "P", "Q", "R", "S", "T", "U", "V", "W", "X", "Y", "Z"}

\* The class [A-Ga-gz\[\|V:] of the music-line test.
MusicStart ==
    {"A", "B", "C", "D", "E", "F", "G", "a", "b", "c", "d", "e", "f", "g",
     "z", "[", "|", "V", ":"}

(***************************************************************************)
(* String primitives of JavaScript, on sequences of characters.            *)
(***************************************************************************)
RECURSIVE Concat(_)
Concat(parts) ==
    IF parts = <<>> THEN <<>> ELSE Head(parts) \o Concat(Tail(parts))

RECURSIVE Repeat(_, _)
Repeat(ch, n) == IF n <= 0 THEN <<>> ELSE <<ch>> \o Repeat(ch, n - 1)

RECURSIVE CountChar(_, _)
CountChar(s, ch) ==
    IF s = <<>> THEN 0
    ELSE (IF Head(s) = ch THEN 1 ELSE 0) + CountChar(Tail(s), ch)

RECURSIVE TrimStart(_)
TrimStart(s) ==
    IF s # <<>> /\ Head(s) \in WhiteSpace THEN TrimStart(Tail(s)) ELSE s

RECURSIVE TrimEnd(_)
TrimEnd(s) ==
    IF s # <<>> /\ s[Len(s)] \in WhiteSpace
    THEN TrimEnd(SubSeq(s, 1, Len(s) - 1))
    ELSE s

Trim(s) == TrimEnd(TrimStart(s))

\* Index of the first "\n" of s, or 0.
RECURSIVE FirstNL(_, _)
FirstNL(s, i) ==
    IF i > Len(s) THEN 0 ELSE IF s[i] = NL THEN i ELSE FirstNL(s, i + 1)

\* s.split('\n')
RECURSIVE Split(_)
Split(s) ==
    LET k == FirstNL(s, 1)
    IN  IF k = 0 THEN <<s>>
        ELSE <<SubSeq(s, 1, k - 1)>> \o Split(SubSeq(s, k + 1, Len(s)))

\* lines.join('\n')
RECURSIVE Join(_)
Join(lines) ==
    IF lines = <<>> THEN <<>>
    ELSE IF Len(lines) = 1 THEN lines[1]
    ELSE lines[1] \o <<NL>> \o Join(Tail(lines))

IsFenceAt(s, i) ==
    /\ i + 2 <= Len(s)
    /\ s[i] = Backtick
    /\ s[i + 1] = Backtick
    /\ s[i + 2] = Backtick

\* "abc" under the i flag.
IsAbcAt(s, i) ==
    /\ i + 2 <= Len(s)
    /\ s[i] \in {"a", "A"}
    /\ s[i + 1] \in {"b", "B"}
    /\ s[i + 2] \in {"c", "C"}

\* The position after an optional "\n" at position i.
SkipOptNL(s, i) == IF i <= Len(s) /\ s[i] = NL THEN i + 1 ELSE i

\* s.replace(/```abc\n?/gi, ''), scanning from position i.
RECURSIVE ReplaceFenceAbc(_, _)
ReplaceFenceAbc(s, i) ==
    IF i > Len(s) THEN <<>>
    ELSE IF IsFenceAt(s, i) /\ IsAbcAt(s, i + 3)
         THEN ReplaceFenceAbc(s, SkipOptNL(s, i + 6))
         ELSE <<s[i]>> \o ReplaceFenceAbc(s, i + 1)

\* s.replace(/```\n?/g, ''), scanning from position i.
RECURSIVE ReplaceFence(_, _)
ReplaceFence(s, i) ==
    IF i > Len(s) THEN <<>>
    ELSE IF IsFenceAt(s, i)
         THEN ReplaceFence(s, SkipOptNL(s, i + 3))
         ELSE <<s[i]>> \o ReplaceFence(s, i + 1)

\* ^ under the m flag, at position i.
AtLineStart(s, i) == i = 1 \/ s[i - 1] \in LineTerminators

\* The position after \s* matched greedily from position i.
RECURSIVE SkipWs(_, _)
SkipWs(s, i) ==
    IF i <= Len(s) /\ s[i] \in WhiteSpace THEN SkipWs(s, i + 1) ELSE i

\* /^X:\s*\d+/m.test(s)
HasXHeader(s) ==
    \E i \in 1..Len(s) :
        /\ AtLineStart(s, i)
        /\ i + 1 <= Len(s)
        /\ s[i] = "X"
        /\ s[i + 1] = ":"
        /\ LET j == SkipWs(s, i + 2) IN j <= Len(s) /\ s[j] \in Digits

\* /^K:/m.test(s) and /^M:/m.test(s)
HasHeader(s, letter) ==
    \E i \in 1..Len(s) :
        AtLineStart(s, i) /\ i + 1 <= Len(s) /\ s[i] = letter /\ s[i + 1] = ":"

\* /^[A-Z]:/.test(line)
IsHeaderLine(line) ==
    Len(line) >= 2 /\ line[1] \in UpperCase /\ line[2] = ":"

\* /^[A-Ga-gz\[\|V:]/.test(line) && !/^[A-Z]:/.test(line)
IsMusicLine(line) ==
    Len(line) >= 1 /\ line[1] \in MusicStart /\ ~IsHeaderLine(line)

\* lines.findIndex(IsMusicLine): the 0-based index, or -1.
RECURSIVE FindMusicLine(_, _)
FindMusicLine(lines, i) ==
    IF i > Len(lines) THEN -1
    ELSE IF IsMusicLine(lines[i]) THEN i - 1
    ELSE FindMusicLine(lines, i + 1)

(***************************************************************************)
(* validateAndFixAbc, step by step.  A fix is the message pushed to the    *)
(* fixes array: its fixed text, and the line number and count that the     *)
(* bracket message interpolates (0 elsewhere).                             *)
(***************************************************************************)
Fix(msg, line, count) == [msg |-> msg, line |-> line, count |-> count]

FixAddedX == Fix("Added missing X:1 header", 0, 0)
FixAddedK == Fix("Added missing K:C header (defaulted to C major)", 0, 0)
FixBraces == Fix("Closed unclosed grace note braces", 0, 0)
FixBracket(line, count) == Fix("Line: Closed unclosed bracket(s)", line, count)

HeaderX1 == <<"X", ":", "1">>
HeaderKC == <<"K", ":", "C">>

\* StripCodeBlocks, were only the fences with a language tag removed.
StripTaggedFences(abc) == Trim(ReplaceFenceAbc(abc, 1))

\* Remove markdown code blocks.
StripCodeBlocks(abc) == Trim(ReplaceFence(ReplaceFenceAbc(abc, 1), 1))

\* Ensure X: header exists.
EnsureXHeader(r) ==
    IF ~HasXHeader(r.abc)
    THEN [abc |-> HeaderX1 \o <<NL>> \o r.abc,
          fixes |-> Append(r.fixes, FixAddedX)]
    ELSE r

\* The guard of the K:C insertion on the index findIndex returned.
InsertsKeyAt(musicLineIndex) == musicLineIndex > 0

\* Ensure K: header exists (required before music).
EnsureKHeader(r) ==
    IF ~HasHeader(r.abc, "K")
    THEN LET lines == Split(r.abc)
             musicLineIndex == FindMusicLine(lines, 1)
         IN  IF InsertsKeyAt(musicLineIndex)
             THEN [abc |-> Join(SubSeq(lines, 1, musicLineIndex)
                                \o <<HeaderKC>>
                                \o SubSeq(lines, musicLineIndex + 1, Len(lines))),
                   fixes |-> Append(r.fixes, FixAddedK)]
             ELSE r
    ELSE r

\* MissingBrackets, were one "]" appended whatever the surplus.
MissingBracketsAtMostOne(line) ==
    IF ~IsHeaderLine(line) /\ CountChar(line, "[") > CountChar(line, "]")
    THEN 1
    ELSE 0

\* The number of "]" the bracket step appends to a line.
MissingBrackets(line) ==
    LET openBrackets == CountChar(line, "[")
        closeBrackets == CountChar(line, "]")
    IN  IF ~IsHeaderLine(line) /\ openBrackets > closeBrackets
        THEN openBrackets - closeBrackets
        ELSE 0

\* The fixes the bracket step pushes for lines i.. of the text.
RECURSIVE BracketFixes(_, _)
BracketFixes(lines, i) ==
    IF i > Len(lines) THEN <<>>
    ELSE (IF MissingBrackets(lines[i]) > 0
          THEN <<FixBracket(i, MissingBrackets(lines[i]))>>
          ELSE <<>>) \o BracketFixes(lines, i + 1)

\* Fix unclosed brackets at end of lines.
CloseBrackets(r) ==
    LET lines == Split(r.abc)
    IN  [abc |-> Join([i \in 1..Len(lines) |->
                          lines[i] \o Repeat("]", MissingBrackets(lines[i]))]),
         fixes |-> r.fixes \o BracketFixes(lines, 1)]

\* CloseBraces, were one "}" appended whatever the surplus.
CloseBracesOnce(r) ==
    IF CountChar(r.abc, "{") > CountChar(r.abc, "}")
    THEN [abc |-> Append(r.abc, "}"), fixes |-> Append(r.fixes, FixBraces)]
    ELSE r

\* Fix unclosed braces (grace notes).
CloseBraces(r) ==
    LET openBraces == CountChar(r.abc, "{")
        closeBraces == CountChar(r.abc, "}")
    IN  IF openBraces > closeBraces
        THEN [abc |-> r.abc \o Repeat("}", openBraces - closeBraces),
              fixes |-> Append(r.fixes, FixBraces)]
        ELSE r

validateAndFixAbc(abc) ==
    CloseBraces(CloseBrackets(EnsureKHeader(EnsureXHeader(
        [abc |-> StripCodeBlocks(abc), fixes |-> <<>>]))))

(***************************************************************************)
(* hasCriticalErrors: the list of error messages, in the code's order.     *)
(***************************************************************************)
MinAbcLength == 20

\* hasCriticalErrors, were the meter header not looked for.
hasCriticalErrorsButMeter(abc) ==
    (IF ~HasXHeader(abc) THEN <<"Missing X: header">> ELSE <<>>)
    \o (IF ~HasHeader(abc, "K") THEN <<"Missing K: (key) header">> ELSE <<>>)
    \o (IF Len(abc) < MinAbcLength
        THEN <<"Response too short to be valid ABC notation">> ELSE <<>>)

\* hasCriticalErrors, were only the first error found reported.
hasCriticalErrorsFirstOnly(abc) ==
    IF ~HasXHeader(abc) THEN <<"Missing X: header">>
    ELSE IF ~HasHeader(abc, "K") THEN <<"Missing K: (key) header">>
    ELSE IF ~HasHeader(abc, "M") THEN <<"Missing M: (time signature) header">>
    ELSE IF Len(abc) < MinAbcLength
    THEN <<"Response too short to be valid ABC notation">>
    ELSE <<>>

hasCriticalErrors(abc) ==
    (IF ~HasXHeader(abc) THEN <<"Missing X: header">> ELSE <<>>)
    \o (IF ~HasHeader(abc, "K") THEN <<"Missing K: (key) header">> ELSE <<>>)
    \o (IF ~HasHeader(abc, "M")
        THEN <<"Missing M: (time signature) header">> ELSE <<>>)
    \o (IF Len(abc) < MinAbcLength
        THEN <<"Response too short to be valid ABC notation">> ELSE <<>>)

(***************************************************************************)
(* The recognition engine (openai.chat.completions.create) as seen by the  *)
(* handler: the call throws, or it returns a completion whose              *)
(* choices[0]?.message?.content is missing or is a text.                   *)
(***************************************************************************)
Throws(e) == [kind |-> "throw", content |-> <<>>, error |-> e]
NoContent == [kind |-> "missing", content |-> <<>>, error |-> ""]
Content(t) == [kind |-> "content", content |-> t, error |-> ""]

EngineErrors == {"429 rate limit exceeded", "401 invalid api key"}

Fence == <<Backtick, Backtick, Backtick>>
HeaderM44 == <<"M", ":", "4", "/", "4">>
TwoBars == <<"C", "D", "E", "F", "|", "G", "A", "B", "c", "|">>

\* A complete tune: reference, meter and key headers and two bars.
TextGood == Concat(<<HeaderX1, <<NL>>, HeaderM44, <<NL>>, HeaderKC, <<NL>>, TwoBars>>)
\* The same tune wrapped in a markdown code block.
TextFenced == Concat(<<Fence, <<"a", "b", "c", NL>>, TextGood, <<NL>>, Fence>>)
\* A tune without meter and key headers, with an unclosed chord.
TextNoMeterKey ==
    Concat(<<HeaderX1, <<NL, "T", ":", "a", NL>>, TwoBars, <<"[", "C", "E">>>>)
\* Music on the first line, the reference and meter headers after it.
TextMusicFirst ==
    Concat(<<TwoBars, <<NL>>, HeaderX1, <<NL>>, HeaderM44, <<NL, "{", "g">>, TwoBars>>)
\* A key header in a code block whose opening fence follows two stray fence
\* characters and whose language tag is followed by one more.
TextFencedKey ==
    Concat(<<<<Backtick, Backtick>>, Fence, <<"a", "b", "c", Backtick, NL>>,
             HeaderKC, <<NL>>, Fence>>)
\* Only a code fence, only white space, nothing, only a key header.
TextFenceOnly == Fence
TextBlank == <<" ", NL>>
TextEmpty == <<>>
TextKeyOnly == HeaderKC

ResponseTexts ==
    {TextGood, TextFenced, TextNoMeterKey, TextMusicFirst, TextFencedKey,
     TextFenceOnly, TextBlank, TextEmpty, TextKeyOnly}

EngineOutcomes ==
    {Throws(e) : e \in EngineErrors} \cup {NoContent}
        \cup {Content(t) : t \in ResponseTexts}

\* response.choices[0]?.message?.content?.trim(): absent (<<>>) or <<text>>.
TrimmedContent(outcome) ==
    IF outcome.kind = "content" THEN <<Trim(outcome.content)>> ELSE <<>>

\* Falsy, were the empty string not treated like a missing content.
FalsyOnlyWhenMissing(opt) == opt = <<>>

\* !x for x a string or undefined.
Falsy(opt) == opt = <<>> \/ opt[1] = <<>>

(***************************************************************************)
(* The requests a client can post, and the prompts of the three passes.    *)
(***************************************************************************)
Images == {"", "QUJD", "REVG"}
MimeTypes == {"image/jpeg", "image/png"}

ImageUrl(mimeType, image) == <<"data:", mimeType, ";base64,", image>>

EngineCall(prompt, imageUrl, temperature) ==
    [prompt |-> prompt, imageUrl |-> imageUrl, temperature |-> temperature]

\* A prompt: which template it is and what the template interpolates.
pass1Prompt == [template |-> "pass1Prompt", abc |-> <<>>, errors |-> <<>>]

\* getVerificationPrompt, were the first-pass text left out of the template.
getVerificationPromptWithoutText(pass1Abc) ==
    [template |-> "getVerificationPrompt", abc |-> <<>>, errors |-> <<>>]

getVerificationPrompt(pass1Abc) ==
    [template |-> "getVerificationPrompt", abc |-> pass1Abc, errors |-> <<>>]
retryPrompt(criticalErrors) ==
    [template |-> "retryPrompt", abc |-> <<>>, errors |-> criticalErrors]

(***************************************************************************)
(* The responses of the POST handler.                                      *)
(***************************************************************************)
BadRequest == [status |-> 400, body |-> [error |-> "Image data is required"]]

\* CatchResponse, were the caught error's text passed on to the caller.
CatchResponseLeaking(error) == [status |-> 500, body |-> [error |-> error]]

\* The catch block: the error is logged, the response does not depend on it.
CatchResponse(error) ==
    [status |-> 500, body |-> [error |-> "Failed to read sheet music from image"]]

\* The passes field of the success response.
ReportedPasses(calls) == 2

\* The fixes field of the success response.
ReportedFixes(pass1Validated, pass2Validated, retryValidated) ==
    pass1Validated[1].fixes \o pass2Validated[1].fixes

SuccessResponse(s) ==
    [status |-> 200,
     body |-> [abc |-> s.finalAbc[1],
               passes |-> ReportedPasses(s.calls),
               fixes |-> ReportedFixes(s.pass1Validated, s.pass2Validated,
                                       s.retryValidated)]]

\* NeedsRetry, were a single critical error tolerated.
NeedsRetryWhenSeveral(criticalErrors) == Len(criticalErrors) > 1

\* The retry is attempted when the critical-error list is not empty.
NeedsRetry(criticalErrors) == Len(criticalErrors) > 0

(***************************************************************************)
(* One upload: the state of the POST handler between its awaits, and of    *)
(* handleFileUpload once the response is back.  Absent values are <<>>,    *)
(* present ones <<v>>; calls are the engine calls issued so far, outcomes  *)
(* what the engine answered to them; temperatures are in tenths.           *)
(***************************************************************************)
NewSession ==
    [pc |-> "init",
     request |-> <<>>,
     imageUrl |-> <<>>,
     calls |-> <<>>,
     outcomes |-> <<>>,
     pass1Abc |-> <<>>,
     pass1Validated |-> <<>>,
     pass2Abc |-> <<>>,
     pass2Validated |-> <<>>,
     criticalErrors |-> <<>>,
     retryAbc |-> <<>>,
     retryValidated |-> <<>>,
     finalAbc |-> <<>>,
     caught |-> <<>>,
     response |-> <<>>,
     status |-> <<>>,
     abcInput |-> <<>>]

\* Set, were pass1Abc a variable of the module, shared by the requests.
SetSharingPass1(s, upd) ==
    sess' = [t \in DOMAIN sess |->
                IF t = s THEN upd ELSE [sess[t] EXCEPT !.pass1Abc = upd.pass1Abc]]

\* The variables of POST are local to the request: a step changes session s.
Set(s, upd) == sess' = [sess EXCEPT ![s] = upd]

\* Fail, were the catch block to return the text it already has.
FailWithPartialText(r, error) ==
    IF r.finalAbc # <<>>
    THEN [r EXCEPT !.pc = "responded", !.response = <<SuccessResponse(r)>>]
    ELSE [r EXCEPT !.pc = "responded",
                   !.caught = <<error>>,
                   !.response = <<CatchResponse(error)>>]

\* throw ... -> catch: respond with the catch block's response.
Fail(r, error) ==
    [r EXCEPT !.pc = "responded",
              !.caught = <<error>>,
              !.response = <<CatchResponse(error)>>]

\* Succeed, were the critical check run again on the final text.
SucceedIfValid(r) ==
    IF hasCriticalErrors(r.finalAbc[1]) # <<>>
    THEN Fail(r, "Transcription still invalid")
    ELSE [r EXCEPT !.pc = "responded", !.response = <<SuccessResponse(r)>>]

\* return Response.json({ abc, passes, fixes })
Succeed(r) == [r EXCEPT !.pc = "responded", !.response = <<SuccessResponse(r)>>]

\* POST up to the first await: the image check and the pass-1 engine call.
ReceiveStep(r, image, mimeType) ==
    LET read == [r EXCEPT !.request = <<[image |-> image, mimeType |-> mimeType]>>]
        imageUrl == ImageUrl(mimeType, image)
    IN  IF image = ""
        THEN [read EXCEPT !.pc = "responded", !.response = <<BadRequest>>]
        ELSE [read EXCEPT
                 !.pc = "pass1",
                 !.imageUrl = <<imageUrl>>,
                 !.calls = <<EngineCall(pass1Prompt, imageUrl, 1)>>]

Receive(s, image, mimeType) ==
    /\ sess[s].pc = "init"
    /\ Set(s, ReceiveStep(sess[s], image, mimeType))
    /\ UNCHANGED <<rep, cond, px, qa>>

\* The pass-1 call settles: validate, then issue the pass-2 call.
Pass1Step(session, outcome) ==
    LET r == [session EXCEPT !.outcomes = Append(@, outcome)]
        pass1Abc == TrimmedContent(outcome)
    IN  IF outcome.kind = "throw"
        THEN Fail(r, outcome.error)
        ELSE IF Falsy(pass1Abc)
        THEN Fail([r EXCEPT !.pass1Abc = pass1Abc],
                  "No response from OpenAI in Pass 1")
        ELSE LET pass1Validated == validateAndFixAbc(pass1Abc[1])
             IN  [r EXCEPT
                     !.pc = "pass2",
                     !.pass1Validated = <<pass1Validated>>,
                     !.pass1Abc = <<pass1Validated.abc>>,
                     !.calls = Append(@, EngineCall(
                         getVerificationPrompt(pass1Validated.abc),
                         r.imageUrl[1], 1))]

Pass1Return(s, outcome) ==
    /\ sess[s].pc = "pass1"
    /\ Set(s, Pass1Step(sess[s], outcome))
    /\ UNCHANGED <<rep, cond, px, qa>>

\* The pass-2 call settles: fall back on an empty answer, validate, run the
\* critical check and either respond or issue the retry call.
Pass2Step(session, outcome) ==
    LET r == [session EXCEPT !.outcomes = Append(@, outcome)]
        content == TrimmedContent(outcome)
        pass2Abc == IF Falsy(content) THEN r.pass1Abc ELSE content
        pass2Validated == validateAndFixAbc(pass2Abc[1])
        finalAbc == pass2Validated.abc
        criticalErrors == hasCriticalErrors(finalAbc)
        checked == [r EXCEPT !.pass2Abc = pass2Abc,
                             !.pass2Validated = <<pass2Validated>>,
                             !.finalAbc = <<finalAbc>>,
                             !.criticalErrors = <<criticalErrors>>]
    IN  IF outcome.kind = "throw"
        THEN Fail(r, outcome.error)
        ELSE IF NeedsRetry(criticalErrors)
        THEN [checked EXCEPT
                 !.pc = "retry",
                 !.calls = Append(@, EngineCall(retryPrompt(criticalErrors),
                                                r.imageUrl[1], 2))]
        ELSE Succeed(checked)

Pass2Return(s, outcome) ==
    /\ sess[s].pc = "pass2"
    /\ Set(s, Pass2Step(sess[s], outcome))
    /\ UNCHANGED <<rep, cond, px, qa>>

\* RetryStep, were an empty answer fatal as it is at pass 1.
RetryStepEmptyFatal(session, outcome) ==
    LET r == [session EXCEPT !.outcomes = Append(@, outcome)]
        retryAbc == TrimmedContent(outcome)
    IN  IF outcome.kind = "throw"
        THEN Fail(r, outcome.error)
        ELSE IF Falsy(retryAbc)
        THEN Fail([r EXCEPT !.retryAbc = retryAbc], "No response from OpenAI in retry")
        ELSE LET retryValidated == validateAndFixAbc(retryAbc[1])
             IN  Succeed([r EXCEPT
                     !.retryAbc = retryAbc,
                     !.retryValidated = <<retryValidated>>,
                     !.finalAbc = <<retryValidated.abc>>])

\* The retry call settles: a non-empty answer is validated and replaces the
\* final text; then the handler responds.
RetryStep(session, outcome) ==
    LET r == [session EXCEPT !.outcomes = Append(@, outcome)]
        retryAbc == TrimmedContent(outcome)
    IN  IF outcome.kind = "throw"
        THEN Fail(r, outcome.error)
        ELSE IF ~Falsy(retryAbc)
        THEN LET retryValidated == validateAndFixAbc(retryAbc[1])
             IN  Succeed([r EXCEPT
                     !.retryAbc = retryAbc,
                     !.retryValidated = <<retryValidated>>,
                     !.finalAbc = <<retryValidated.abc>>])
        ELSE Succeed([r EXCEPT !.retryAbc = retryAbc])

RetryReturn(s, outcome) ==
    /\ sess[s].pc = "retry"
    /\ Set(s, RetryStep(sess[s], outcome))
    /\ UNCHANGED <<rep, cond, px, qa>>

\* POST run from the request to the point the engine has answered `outcomes`.
StepOn(session, outcome) ==
    CASE session.pc = "pass1" -> Pass1Step(session, outcome)
      [] session.pc = "pass2" -> Pass2Step(session, outcome)
      [] session.pc = "retry" -> RetryStep(session, outcome)
      [] OTHER -> session

RECURSIVE RunOn(_, _, _)
RunOn(session, outcomes, k) ==
    IF k > Len(outcomes) THEN session
    ELSE RunOn(StepOn(session, outcomes[k]), outcomes, k + 1)

RunAlone(request, outcomes) ==
    RunOn(ReceiveStep(NewSession, request.image, request.mimeType), outcomes, 1)

(***************************************************************************)
(* handleFileUpload after the fetch: what the user gets to see.            *)
(***************************************************************************)
UploadFailed ==
    [type |-> "error",
     message |-> "Failed to read sheet music. Please try a clearer image.",
     corrections |-> 0]

UploadSucceeded(fixes) ==
    [type |-> "success",
     message |-> "Sheet music converted to ABC notation!",
     corrections |-> Len(fixes)]

\* The status handleFileUpload shows for a response.
ShownStatus(response) ==
    IF response.status \notin 200..299 THEN UploadFailed
    ELSE IF "abc" \in DOMAIN response.body /\ response.body.abc # <<>>
    THEN UploadSucceeded(response.body.fixes)
    ELSE UploadFailed

HandleResponse(s) ==
    /\ sess[s].pc = "responded"
    /\ LET response == sess[s].response[1]
           shown == ShownStatus(response)
       IN  Set(s, [sess[s] EXCEPT
               !.pc = "shown",
               !.status = <<shown>>,
               !.abcInput = IF shown.type = "success"
                            THEN <<response.body.abc>> ELSE <<>>])
    /\ UNCHANGED <<rep, cond, px, qa>>

(***************************************************************************)
(* validateAndFixAbc applied to a text, and again to its own output.       *)
(* The texts are a head (nothing, the reference and key headers, or these  *)
(* and a line opening a grace note) followed by at most MaxChunks chunks.  *)
(***************************************************************************)
MaxChunks == 3

Chunks ==
    {HeaderX1, HeaderKC, <<NL>>, <<" ">>, <<"a", "b", "c">>, Fence,
     <<"[">>, <<"]">>, <<"{">>, <<"}">>}

RepairHeads ==
    {<<>>,
     Concat(<<HeaderX1, <<NL>>, HeaderKC, <<NL>>>>),
     Concat(<<HeaderX1, <<NL>>, HeaderKC, <<NL, "{", "g", NL>>>>)}

RepairInputs ==
    {head \o Concat(body) :
        head \in RepairHeads,
        body \in UNION {[1..n -> Chunks] : n \in 0..MaxChunks}}

Repair ==
    /\ rep.phase = "input"
    /\ rep' = [rep EXCEPT !.phase = "once",
                          !.first = <<validateAndFixAbc(rep.input)>>]
    /\ UNCHANGED <<sess, cond, px, qa>>

RepairAgain ==
    /\ rep.phase = "once"
    /\ rep' = [rep EXCEPT !.phase = "twice",
                          !.second = <<validateAndFixAbc(rep.first[1].abc)>>]
    /\ UNCHANGED <<sess, cond, px, qa>>

(***************************************************************************)
(* assessImageQuality and preprocessImage.  A canvas is its size and the   *)
(* two scores measureContrast and measureSharpness return for its pixels,  *)
(* in thousandths (a score of 0.15 is 150); the contrast factor is in      *)
(* hundredths (1.3 is 130).                                                *)
(***************************************************************************)
Max(a, b) == IF a >= b THEN a ELSE b
Min(a, b) == IF a <= b THEN a ELSE b

\* Math.round(a / b) for a >= 0 and b > 0: halves round up.
RoundDiv(a, b) == (2 * a + b) \div (2 * b)

\* IsAcceptable, were the four limits exclusive.
IsAcceptableStrict(width, height, contrastScore, sharpnessScore) ==
    contrastScore > 100 /\ sharpnessScore > 50 /\ width > 300 /\ height > 200

\* The verdict: contrast >= 0.1, sharpness >= 0.05, width >= 300, height >= 200.
IsAcceptable(width, height, contrastScore, sharpnessScore) ==
    contrastScore >= 100 /\ sharpnessScore >= 50 /\ width >= 300 /\ height >= 200

\* assessImageQuality, were every threshold inclusive (<= for <).
assessImageQualityInclusive(canvas) ==
    LET width == canvas.width
        height == canvas.height
        contrastScore == canvas.contrast
        sharpnessScore == canvas.sharpness
        resolution ==
            IF width <= 400 \/ height <= 400
            THEN [w |-> <<"Image resolution is low">>,
                  s |-> <<"Use a higher resolution image for better accuracy">>]
            ELSE IF width <= 800 \/ height <= 800
            THEN [w |-> <<>>, s |-> <<"Higher resolution may improve accuracy">>]
            ELSE [w |-> <<>>, s |-> <<>>]
        contrast ==
            IF contrastScore <= 150
            THEN [w |-> <<"Very low contrast detected">>,
                  s |-> <<"Ensure good lighting and a clear difference between notes and background">>]
            ELSE IF contrastScore <= 250
            THEN [w |-> <<>>,
                  s |-> <<"Consider using a scanner or improving lighting for better contrast">>]
            ELSE [w |-> <<>>, s |-> <<>>]
        sharpness ==
            IF sharpnessScore <= 100
            THEN [w |-> <<"Image appears blurry">>,
                  s |-> <<"Hold camera steady or use a scanner for sharper results">>]
            ELSE IF sharpnessScore <= 200
            THEN [w |-> <<>>,
                  s |-> <<"Image could be sharper - try holding camera more steady">>]
            ELSE [w |-> <<>>, s |-> <<>>]
    IN  [width |-> width,
         height |-> height,
         contrastScore |-> contrastScore,
         sharpnessScore |-> sharpnessScore,
         isAcceptable |->
             IsAcceptable(width, height, contrastScore, sharpnessScore),
         warnings |-> resolution.w \o contrast.w \o sharpness.w,
         suggestions |-> resolution.s \o contrast.s \o sharpness.s]

assessImageQuality(canvas) ==
    LET width == canvas.width
        height == canvas.height
        contrastScore == canvas.contrast
        sharpnessScore == canvas.sharpness
        resolution ==
            IF width < 400 \/ height < 400
            THEN [w |-> <<"Image resolution is low">>,
                  s |-> <<"Use a higher resolution image for better accuracy">>]
            ELSE IF width < 800 \/ height < 800
            THEN [w |-> <<>>, s |-> <<"Higher resolution may improve accuracy">>]
            ELSE [w |-> <<>>, s |-> <<>>]
        contrast ==
            IF contrastScore < 150
            THEN [w |-> <<"Very low contrast detected">>,
                  s |-> <<"Ensure good lighting and a clear difference between notes and background">>]
            ELSE IF contrastScore < 250
            THEN [w |-> <<>>,
                  s |-> <<"Consider using a scanner or improving lighting for better contrast">>]
            ELSE [w |-> <<>>, s |-> <<>>]
        sharpness ==
            IF sharpnessScore < 100
            THEN [w |-> <<"Image appears blurry">>,
                  s |-> <<"Hold camera steady or use a scanner for sharper results">>]
            ELSE IF sharpnessScore < 200
            THEN [w |-> <<>>,
                  s |-> <<"Image could be sharper - try holding camera more steady">>]
            ELSE [w |-> <<>>, s |-> <<>>]
    IN  [width |-> width,
         height |-> height,
         contrastScore |-> contrastScore,
         sharpnessScore |-> sharpnessScore,
         isAcceptable |->
             IsAcceptable(width, height, contrastScore, sharpnessScore),
         warnings |-> resolution.w \o contrast.w \o sharpness.w,
         suggestions |-> resolution.s \o contrast.s \o sharpness.s]

DefaultMaxDimension == 2048
DefaultContrastFactor == 130

\* LongestSide, were the scale computed on the shorter side.
ShortestSide(width, height) == Min(width, height)

\* The longer side, on which the scale is computed.
LongestSide(width, height) == Max(width, height)

\* Math.round(side * scale), scale = maxDimension / LongestSide.
ScaledSide(side, maxDimension, longest) == RoundDiv(side * maxDimension, longest)

ResizedStep(img, newWidth, newHeight) ==
    [step |-> "Resized",
     from |-> <<img.width, img.height>>,
     to |-> <<newWidth, newHeight>>,
     factor |-> 0]

EnhancedStep(contrastFactor) ==
    [step |-> "Applied contrast enhancement",
     from |-> <<>>,
     to |-> <<>>,
     factor |-> contrastFactor]

\* ShouldEnhance, were the contrast score not looked at.
ShouldEnhanceWhenAsked(enhanceContrast, contrastScore) == enhanceContrast

\* The stretch is applied when asked for and the contrast score is below 0.4.
ShouldEnhance(enhanceContrast, contrastScore) ==
    enhanceContrast /\ contrastScore < 400

\* OutputMimeType, were the final report consulted.
OutputMimeTypeOfFinal(preEnhanceQuality, quality) ==
    IF quality.contrastScore > 500 THEN "image/png" ELSE "image/jpeg"

\* PNG for clean scans, JPEG for photos, by the report made before the
\* enhancement.
OutputMimeType(preEnhanceQuality, quality) ==
    IF preEnhanceQuality.contrastScore > 500 THEN "image/png" ELSE "image/jpeg"

\* The size preprocessImage gives the canvas: the image's, or the image's
\* scaled so that its longer side is maxDimension.
CanvasSize(img, maxDimension) ==
    LET longest == LongestSide(img.width, img.height)
    IN  IF img.width > maxDimension \/ img.height > maxDimension
        THEN [width |-> ScaledSide(img.width, maxDimension, longest),
              height |-> ScaledSide(img.height, maxDimension, longest)]
        ELSE [width |-> img.width, height |-> img.height]

\* ctx.getImageData(0, 0, width, height) throws IndexSizeError when the width
\* or the height is 0; assessImageQuality does not catch it.
GetImageDataThrows(canvas) == canvas.width = 0 \/ canvas.height = 0

\* preprocessImage(img, options) when getImageData does not throw, the canvas
\* after enhanceContrastData having the scores `enhanced`; `stretched` tells
\* whether the canvas holds the stretched data.
preprocessImage(img, options, enhanced) ==
    LET maxDimension == options.maxDimension
        resize == img.width > maxDimension \/ img.height > maxDimension
        newWidth == CanvasSize(img, maxDimension).width
        newHeight == CanvasSize(img, maxDimension).height
        drawn == [width |-> newWidth, height |-> newHeight,
                  contrast |-> img.contrast, sharpness |-> img.sharpness,
                  stretched |-> FALSE]
        preEnhanceQuality == assessImageQuality(drawn)
        enhance == ShouldEnhance(options.enhanceContrast,
                                 preEnhanceQuality.contrastScore)
        canvas == IF enhance
                  THEN [drawn EXCEPT !.contrast = enhanced.contrast,
                                     !.sharpness = enhanced.sharpness,
                                     !.stretched = TRUE]
                  ELSE drawn
        mimeType == OutputMimeType(preEnhanceQuality, assessImageQuality(canvas))
    IN  [processedDataUrl |-> [mimeType |-> mimeType, canvas |-> canvas],
         originalSize |-> [width |-> img.width, height |-> img.height],
         processedSize |-> [width |-> newWidth, height |-> newHeight],
         quality |-> assessImageQuality(canvas),
         processingApplied |->
             (IF resize THEN <<ResizedStep(img, newWidth, newHeight)>> ELSE <<>>)
             \o (IF enhance THEN <<EnhancedStep(options.contrastFactor)>>
                 ELSE <<>>)]

\* The images and options tried: sides up to MaxSide, the sizes of a phone
\* photograph and a very long side; maxDimension up to MaxMaxDimension and
\* the default.
MaxSide == 4
MaxMaxDimension == 3

Sides == 1..MaxSide \cup {3000, 4000, 10000}
MaxDimensions == 1..MaxMaxDimension \cup {DefaultMaxDimension}
ContrastScores == {120, 400, 501}
SharpnessScores == {40, 500}

LoadedImages ==
    [width : Sides, height : Sides,
     contrast : ContrastScores, sharpness : SharpnessScores]

PreprocessOptions ==
    [maxDimension : MaxDimensions,
     enhanceContrast : BOOLEAN,
     contrastFactor : {DefaultContrastFactor}]

\* preprocessImage: the promise is rejected when getImageData throws, and
\* resolved with the result otherwise.
Preprocess ==
    /\ cond.phase = "loaded"
    /\ IF GetImageDataThrows(CanvasSize(cond.img, cond.options.maxDimension))
       THEN cond' = [cond EXCEPT !.phase = "rejected"]
       ELSE \E enhanced \in [contrast : ContrastScores,
                               sharpness : SharpnessScores] :
                cond' = [cond EXCEPT
                    !.phase = "done",
                    !.result = <<preprocessImage(cond.img, cond.options, enhanced)>>]
    /\ UNCHANGED <<sess, rep, px, qa>>

(***************************************************************************)
(* quickQualityCheck: the image is drawn on a canvas whose longer side is   *)
(* at most 500 and assessed there; the scores of that canvas are taken to  *)
(* be the image's.                                                         *)
(***************************************************************************)
QuickCheckEdge == 500

\* The canvas: Math.round(side * scale), scale = Math.min(1, 500 / longest).
QuickCheckCanvas(img) ==
    LET longest == LongestSide(img.width, img.height)
        scale == IF QuickCheckEdge >= longest THEN [num |-> 1, den |-> 1]
                 ELSE [num |-> QuickCheckEdge, den |-> longest]
    IN  [width |-> RoundDiv(img.width * scale.num, scale.den),
         height |-> RoundDiv(img.height * scale.num, scale.den),
         contrast |-> img.contrast,
         sharpness |-> img.sharpness]

\* The report of the canvas, its width and height then set to the image's.
quickQualityCheck(img) ==
    [assessImageQuality(QuickCheckCanvas(img)) EXCEPT !.width = img.width,
                                                      !.height = img.height]

QuickCheck ==
    /\ cond.phase = "loaded"
    /\ IF GetImageDataThrows(QuickCheckCanvas(cond.img))
       THEN cond' = [cond EXCEPT !.phase = "checkRejected"]
       ELSE cond' = [cond EXCEPT !.phase = "checked",
                                 !.result = <<quickQualityCheck(cond.img)>>]
    /\ UNCHANGED <<sess, rep, px, qa>>

(***************************************************************************)
(* clamp and enhanceContrastData.  ImageData.data is the sequence of the   *)
(* channel values R, G, B, A of the pixels; the arithmetic is exact, on    *)
(* fractions.                                                              *)
(***************************************************************************)
\* Math.round(a / b) for integers a and b # 0: floor(a / b + 1/2).
RoundRatio(a, b) ==
    IF b > 0 THEN (2 * a + b) \div (2 * b)
    ELSE (2 * (0 - a) + (0 - b)) \div (2 * (0 - b))

\* clamp(a / b) = Math.max(0, Math.min(255, Math.round(a / b))).
clamp(a, b) == Max(0, Min(255, RoundRatio(a, b)))

\* factor255 = 259 * (factor * 255 + 255) / (255 * (259 - factor * 255)) as a
\* fraction num / den, for a factor in hundredths (both terms over 255/100).
Factor255(factor) ==
    [num |-> 259 * (factor + 100), den |-> 25900 - 255 * factor]

\* clamp(factor255 * (value - 128) + 128) for one channel value.
EnhanceChannel(value, factor) ==
    LET f == Factor255(factor)
    IN  clamp(f.num * (value - 128) + 128 * f.den, f.den)

\* The loop over the pixels: R, G and B are stretched, alpha is kept.
enhanceContrastData(data, factor) ==
    [i \in DOMAIN data |->
        IF i % 4 = 0 THEN data[i] ELSE EnhanceChannel(data[i], factor)]

\* The pixels and factors tried: every red value, some greens, both alphas;
\* the factor 1.0 and the default.
Channel == 0..255
StretchData ==
    {<<r, g, 128, a>> : r \in Channel, g \in {0, 127, 128, 129, 255},
                        a \in {0, 255}}
ContrastFactors == {100, DefaultContrastFactor}

Enhance ==
    /\ px.phase = "raw"
    /\ px' = [px EXCEPT !.phase = "done",
                        !.out = enhanceContrastData(px.data, px.factor)]
    /\ UNCHANGED <<sess, rep, cond, qa>>

(***************************************************************************)
(* measureContrast and measureSharpness on a bitmap [width, height, data], *)
(* data being the pixels <<R, G, B, A>> in row order.  The gray value of a *)
(* pixel is (R + G + B) / 3; the sums below are kept in thirds (Gray3) and *)
(* ninths so that they stay integers.                                      *)
(***************************************************************************)
Gray3(pixel) == pixel[1] + pixel[2] + pixel[3]

\* The pixel at column x, row y (both from 0): data[(y * width + x) * 4].
PixelAt(bitmap, x, y) == bitmap.data[y * bitmap.width + x + 1]

RECURSIVE ISqrtBetween(_, _, _)
ISqrtBetween(n, lo, hi) ==
    IF hi - lo <= 1 THEN lo
    ELSE LET mid == (lo + hi) \div 2
         IN  IF mid * mid <= n THEN ISqrtBetween(n, mid, hi)
             ELSE ISqrtBetween(n, lo, mid)

\* Math.sqrt(n), rounded down to an integer.
ISqrt(n) == ISqrtBetween(n, 0, Min(n + 1, 46340))

RECURSIVE GraySums(_, _)
\* The loop of measureContrast over the first k pixels: sum in thirds, sumSq in
\* ninths.
GraySums(data, k) ==
    IF k = 0 THEN [sum |-> 0, sumSq |-> 0]
    ELSE LET rest == GraySums(data, k - 1)
             gray == Gray3(data[k])
         IN  [sum |-> rest.sum + gray, sumSq |-> rest.sumSq + gray * gray]

\* Math.min(1, rmsContrast * 2) in thousandths, rmsContrast being
\* sqrt(max(0, variance)) / 255 and variance = sumSq / n - mean * mean.
measureContrast(bitmap) ==
    LET n == Len(bitmap.data)
        sums == GraySums(bitmap.data, n)
        variance9nn == Max(0, n * sums.sumSq - sums.sum * sums.sum)
    IN  Min(1000, (2000 * ISqrt(variance9nn)) \div (765 * n))

\* The Laplacian at an interior pixel, in thirds.
Laplacian3(bitmap, x, y) ==
    4 * Gray3(PixelAt(bitmap, x, y))
        - Gray3(PixelAt(bitmap, x, y - 1)) - Gray3(PixelAt(bitmap, x, y + 1))
        - Gray3(PixelAt(bitmap, x - 1, y)) - Gray3(PixelAt(bitmap, x + 1, y))

RECURSIVE LaplacianSum9(_, _, _)
\* The loop of measureSharpness over the first k interior pixels (count runs
\* from 0); a pixel is skipped when count % step # 0.  The sum is in ninths.
LaplacianSum9(bitmap, step, k) ==
    IF k = 0 THEN 0
    ELSE LET count == k - 1
             x == 1 + (count % (bitmap.width - 2))
             y == 1 + (count \div (bitmap.width - 2))
             laplacian == Laplacian3(bitmap, x, y)
         IN  LaplacianSum9(bitmap, step, k - 1)
                 + (IF count % step # 0 THEN 0 ELSE laplacian * laplacian)

\* SharpnessScore, were the result not capped at 1.
SharpnessScoreUncapped(laplacianSum9, samples) ==
    (2 * laplacianSum9) \div (9 * (IF samples = 0 THEN 1 ELSE samples))

\* Math.min(1, variance / 500) in thousandths, variance being
\* laplacianSum / (samples || 1).
SharpnessScore(laplacianSum9, samples) ==
    Min(1000, (2 * laplacianSum9) \div (9 * (IF samples = 0 THEN 1 ELSE samples)))

SampleBound == 10000

\* The interior pixels: those the two loops of measureSharpness visit.
InteriorPixels(width, height) == (width - 2) * (height - 2)

\* samples = Math.min(10000, (width - 2) * (height - 2))
SampleCount(width, height) == Min(SampleBound, InteriorPixels(width, height))

\* step = Math.max(1, Math.floor((width - 2) * (height - 2) / samples))
SampleStep(width, height) ==
    Max(1, InteriorPixels(width, height) \div SampleCount(width, height))

\* The number of interior pixels added to laplacianSum: those whose count
\* (from 0) is a multiple of step.
AccumulatedCount(width, height) ==
    Cardinality({count \in 0..(InteriorPixels(width, height) - 1) :
                    count % SampleStep(width, height) = 0})

measureSharpness(bitmap) ==
    IF bitmap.width < 3 \/ bitmap.height < 3 THEN 500
    ELSE LET interior == InteriorPixels(bitmap.width, bitmap.height)
             samples == SampleCount(bitmap.width, bitmap.height)
             step == SampleStep(bitmap.width, bitmap.height)
         IN  SharpnessScore(LaplacianSum9(bitmap, step, interior), samples)

\* The canvas of assessImageQuality for a bitmap: its size and the two scores
\* measured on its pixels.
Measured(bitmap) ==
    [width |-> bitmap.width, height |-> bitmap.height,
     contrast |-> measureContrast(bitmap),
     sharpness |-> measureSharpness(bitmap)]

\* The canvases assessed: every black-and-white bitmap with sides up to
\* MaxBitmapSide, and canvases given by their scores around each threshold.
MaxBitmapSide == 3

Black == <<0, 0, 0, 255>>
White == <<255, 255, 255, 255>>

\* A canvas holding the pixels `data`.
Bitmap(width, height, data) ==
    [kind |-> "pixels", width |-> width, height |-> height,
     data |-> data, contrast |-> 0, sharpness |-> 0]

BitmapSides == 1..MaxBitmapSide
Palette == {Black, White}

ScoredCanvases ==
    [kind : {"scores"},
     width : {299, 300, 399, 400, 799, 800},
     height : {199, 200, 399, 400, 799, 800},
     data : {<<>>},
     contrast : {99, 100, 149, 150, 249, 250},
     sharpness : {49, 50, 99, 100, 199, 200}]

\* The sizes of the images whose sampling is followed: few interior pixels,
\* as many as the sample bound, and more (10,001, 15,000, 19,999, 20,000
\* and 25,000).
SampledSizes ==
    {<<3, 3>>, <<5, 4>>, <<52, 12>>, <<102, 102>>, <<10003, 3>>, <<152, 102>>,
     <<20001, 3>>, <<202, 102>>, <<252, 102>>}

\* A canvas of which only the size is given.
SizedCanvas(width, height) ==
    [kind |-> "size", width |-> width, height |-> height,
     data |-> <<>>, contrast |-> 0, sharpness |-> 0]

\* measureSharpness on a canvas with both sides >= 3, up to the division:
\* the divisor used and the number of pixels accumulated.
SampleSharpness ==
    /\ qa.phase = "size"
    /\ qa' = [qa EXCEPT
           !.phase = "sampled",
           !.report = <<[interior |-> InteriorPixels(qa.src.width, qa.src.height),
                         step |-> SampleStep(qa.src.width, qa.src.height),
                         divisor |-> SampleCount(qa.src.width, qa.src.height),
                         accumulated |->
                             AccumulatedCount(qa.src.width, qa.src.height)]>>]
    /\ UNCHANGED <<sess, rep, cond, px>>

Assess ==
    /\ qa.phase = "canvas"
    /\ LET canvas == IF qa.src.kind = "pixels" THEN Measured(qa.src)
                     ELSE [width |-> qa.src.width, height |-> qa.src.height,
                           contrast |-> qa.src.contrast,
                           sharpness |-> qa.src.sharpness]
       IN  qa' = [qa EXCEPT !.phase = "done",
                            !.report = <<assessImageQuality(canvas)>>]
    /\ UNCHANGED <<sess, rep, cond, px>>

(***************************************************************************)
(* Spec: one upload, from the posted request to the status shown.          *)
(***************************************************************************)
RepOff == [phase |-> "off", input |-> <<>>, first |-> <<>>, second |-> <<>>]
CondOff == [phase |-> "off", img |-> <<>>, options |-> <<>>, result |-> <<>>]
PxOff == [phase |-> "off", data |-> <<>>, factor |-> 0, out |-> <<>>]
QaOff == [phase |-> "off", src |-> <<>>, report |-> <<>>]

Init ==
    /\ sess = [s \in {1} |-> NewSession]
    /\ rep = RepOff
    /\ cond = CondOff
    /\ px = PxOff
    /\ qa = QaOff

Next ==
    \/ \E s \in DOMAIN sess, image \in Images, mimeType \in MimeTypes :
           Receive(s, image, mimeType)
    \/ \E s \in DOMAIN sess, outcome \in EngineOutcomes : Pass1Return(s, outcome)
    \/ \E s \in DOMAIN sess, outcome \in EngineOutcomes : Pass2Return(s, outcome)
    \/ \E s \in DOMAIN sess, outcome \in EngineOutcomes : RetryReturn(s, outcome)
    \/ \E s \in DOMAIN sess : HandleResponse(s)

Spec == Init /\ [][Next]_vars

(***************************************************************************)
(* SpecRepair: the repair function on every text of RepairInputs.          *)
(***************************************************************************)
InitRepair ==
    /\ sess = <<>>
    /\ rep \in [phase : {"input"}, input : RepairInputs,
                first : {<<>>}, second : {<<>>}]
    /\ cond = CondOff
    /\ px = PxOff
    /\ qa = QaOff

NextRepair == Repair \/ RepairAgain

SpecRepair == InitRepair /\ [][NextRepair]_vars

(***************************************************************************)
(* SpecImage: preprocessImage and quickQualityCheck on every image and     *)
(* option of the sets above.                                               *)
(***************************************************************************)
InitImage ==
    /\ sess = <<>>
    /\ rep = RepOff
    /\ cond \in [phase : {"loaded"}, img : LoadedImages,
                 options : PreprocessOptions, result : {<<>>}]
    /\ px = PxOff
    /\ qa = QaOff

NextImage == Preprocess \/ QuickCheck

SpecImage == InitImage /\ [][NextImage]_vars

(***************************************************************************)
(* SpecStretch: enhanceContrastData on every pixel of StretchData.         *)
(***************************************************************************)
InitStretch ==
    /\ sess = <<>>
    /\ rep = RepOff
    /\ cond = CondOff
    /\ px \in [phase : {"raw"}, data : StretchData,
               factor : ContrastFactors, out : {<<>>}]
    /\ qa = QaOff

NextStretch == Enhance

SpecStretch == InitStretch /\ [][NextStretch]_vars

(***************************************************************************)
(* SpecAssess: assessImageQuality on every canvas of the sets above, and   *)
(* the sampling of measureSharpness on the sizes of SampledSizes.          *)
(***************************************************************************)
InitAssess ==
    /\ sess = <<>>
    /\ rep = RepOff
    /\ cond = CondOff
    /\ px = PxOff
    /\ \/ \E width \in BitmapSides, height \in BitmapSides :
              \E data \in [1..(width * height) -> Palette] :
                  qa = [phase |-> "canvas", src |-> Bitmap(width, height, data),
                        report |-> <<>>]
       \/ \E canvas \in ScoredCanvases :
              qa = [phase |-> "canvas", src |-> canvas, report |-> <<>>]
       \/ \E size \in SampledSizes :
              qa = [phase |-> "size", src |-> SizedCanvas(size[1], size[2]),
                    report |-> <<>>]

NextAssess == Assess \/ SampleSharpness

SpecAssess == InitAssess /\ [][NextAssess]_vars

(***************************************************************************)
(* SpecTwo: two uploads whose handlers interleave at the engine calls.     *)
(***************************************************************************)
TwoOutcomes ==
    {Throws("429 rate limit exceeded"), NoContent,
     Content(TextGood), Content(TextNoMeterKey)}

InitTwo ==
    /\ sess = [s \in {1, 2} |-> NewSession]
    /\ rep = RepOff
    /\ cond = CondOff
    /\ px = PxOff
    /\ qa = QaOff

NextTwo ==
    \/ \E s \in DOMAIN sess, image \in Images : Receive(s, image, "image/png")
    \/ \E s \in DOMAIN sess, outcome \in TwoOutcomes : Pass1Return(s, outcome)
    \/ \E s \in DOMAIN sess, outcome \in TwoOutcomes : Pass2Return(s, outcome)
    \/ \E s \in DOMAIN sess, outcome \in TwoOutcomes : RetryReturn(s, outcome)
    \/ \E s \in DOMAIN sess : HandleResponse(s)

SpecTwo == InitTwo /\ [][NextTwo]_vars

(***************************************************************************)
(* Properties of one upload (Spec).                                        *)
(***************************************************************************)
Finished(r) == r.pc \in {"responded", "shown"}

Succeeded(r) == Finished(r) /\ r.response[1].status = 200

\* The k-th engine call settled with a missing or empty (after trim) content.
EmptyAnswer(r, k) ==
    /\ Len(r.outcomes) >= k
    /\ \/ r.outcomes[k].kind = "missing"
       \/ r.outcomes[k].kind = "content" /\ Trim(r.outcomes[k].content) = <<>>

\* The k-th engine call settled with a non-empty content.
TextAnswer(r, k) ==
    /\ Len(r.outcomes) >= k
    /\ r.outcomes[k].kind = "content"
    /\ Trim(r.outcomes[k].content) # <<>>

\* C1: once the critical check has run, the engine has been invoked 3 times
\* if the check flagged the pass-2 validated text and 2 times if not, and the
\* count does not move after that; no upload ever invokes it more than 3
\* times, whatever the engine answers.
C1_EngineCallCount ==
    \A s \in DOMAIN sess :
        /\ Len(sess[s].calls) <= 3
        /\ sess[s].criticalErrors # <<>> =>
               /\ sess[s].criticalErrors[1]
                      = hasCriticalErrors(sess[s].pass2Validated[1].abc)
               /\ Len(sess[s].calls)
                      = IF sess[s].criticalErrors[1] # <<>> THEN 3 ELSE 2

\* C1 witness: a finished upload whose retry output still has critical
\* errors, after exactly three engine calls.
C1_Witness ==
    \E s \in DOMAIN sess :
        /\ Succeeded(sess[s])
        /\ sess[s].retryValidated # <<>>
        /\ hasCriticalErrors(sess[s].retryValidated[1].abc) # <<>>
        /\ Len(sess[s].calls) = 3
        /\ Len(sess[s].outcomes) = 3

\* C2: the passes field of a success response equals the number of engine
\* passes executed (3 after a retry, 2 without).
C2_PassesIsCallCount ==
    \A s \in DOMAIN sess :
        Succeeded(sess[s]) =>
            sess[s].response[1].body.passes = Len(sess[s].calls)

\* C3: a missing or empty pass-1 answer aborts the upload: nothing is
\* validated, no second or third engine call is made, and the response is a
\* failure carrying no abc, passes or fixes.
C3_Pass1EmptyAborts ==
    \A s \in DOMAIN sess :
        EmptyAnswer(sess[s], 1) =>
            /\ Finished(sess[s])
            /\ Len(sess[s].calls) = 1
            /\ sess[s].pass1Validated = <<>>
            /\ sess[s].pass2Validated = <<>>
            /\ sess[s].retryValidated = <<>>
            /\ sess[s].response[1].status = 500
            /\ DOMAIN sess[s].response[1].body = {"error"}

\* C3 witness: the pass-1 answer was white space only and the upload has
\* been answered.
C3_Witness ==
    \E s \in DOMAIN sess :
        /\ Len(sess[s].outcomes) = 1
        /\ sess[s].outcomes[1] = Content(TextBlank)
        /\ Finished(sess[s])

\* C4: an empty pass-2 answer does not fail the upload: the pass-2 validated
\* text is the pass-1 validated text, character for character, and without a
\* retry that text is returned with passes = 2.
C4_Pass2EmptyKeepsPass1Text ==
    \A s \in DOMAIN sess :
        EmptyAnswer(sess[s], 2) =>
            /\ sess[s].pass2Validated # <<>>
            /\ sess[s].pass2Validated[1].abc = sess[s].pass1Validated[1].abc
            /\ sess[s].criticalErrors[1] = <<>> =>
                   /\ Succeeded(sess[s])
                   /\ sess[s].response[1].body.abc = sess[s].pass1Validated[1].abc
                   /\ sess[s].response[1].body.passes = 2

\* C5: an exception of the engine at any pass ends the upload at once: the
\* throwing call is the last call issued, it is not issued again, and the
\* response is the failure response with no text in it, also when a
\* validated pass-2 text exists.
C5_TransportErrorIsFatal ==
    \A s \in DOMAIN sess :
        \A k \in 1..Len(sess[s].outcomes) :
            sess[s].outcomes[k].kind = "throw" =>
                /\ k = Len(sess[s].outcomes)
                /\ Len(sess[s].calls) = k
                /\ Finished(sess[s])
                /\ sess[s].response[1].status = 500
                /\ DOMAIN sess[s].response[1].body = {"error"}

\* C5 witness: the retry call threw while a validated pass-2 text existed.
C5_Witness ==
    \E s \in DOMAIN sess :
        /\ Len(sess[s].outcomes) = 3
        /\ sess[s].outcomes[3].kind = "throw"
        /\ sess[s].pass2Validated # <<>>
        /\ Finished(sess[s])

\* C6: when the retry call answers with a text, the repaired retry text is
\* the final text of a successful response: the critical errors on record
\* stay those of the pass-2 text (no second evaluation), no engine call
\* follows, and this also when the returned text still has critical errors.
C6_RetryOutputIsFinal ==
    \A s \in DOMAIN sess :
        TextAnswer(sess[s], 3) =>
            /\ Succeeded(sess[s])
            /\ sess[s].response[1].body.abc
                   = validateAndFixAbc(Trim(sess[s].outcomes[3].content)).abc
            /\ sess[s].criticalErrors[1]
                   = hasCriticalErrors(sess[s].pass2Validated[1].abc)
            /\ Len(sess[s].calls) = 3

\* C6 witness: a successful response after a retry whose text lacks the
\* meter header and is too short.
C6_Witness ==
    \E s \in DOMAIN sess :
        /\ TextAnswer(sess[s], 3)
        /\ Succeeded(sess[s])
        /\ ~HasHeader(sess[s].response[1].body.abc, "M")
        /\ Len(sess[s].response[1].body.abc) < MinAbcLength

\* C7: every failed upload (empty pass-1 answer, or an engine exception at
\* any pass) gets the one fixed error response, and the user the one fixed
\* status; neither is, or depends on, the text of the error caught.
C7_GenericFailureMessage ==
    \A s \in DOMAIN sess :
        sess[s].caught # <<>> =>
            /\ sess[s].response[1]
                   = [status |-> 500,
                      body |-> [error |-> "Failed to read sheet music from image"]]
            /\ sess[s].response[1].body.error # sess[s].caught[1]
            /\ sess[s].pc = "shown" =>
                   /\ sess[s].status[1] = UploadFailed
                   /\ sess[s].status[1].message # sess[s].caught[1]
                   /\ sess[s].abcInput = <<>>

\* C7 witness: an engine exception was caught and the user has been shown
\* the status.
C7_Witness ==
    \E s \in DOMAIN sess :
        /\ sess[s].caught # <<>>
        /\ sess[s].caught[1] \in EngineErrors
        /\ sess[s].pc = "shown"

(***************************************************************************)
(* Properties of the repair function (SpecRepair).                         *)
(***************************************************************************)
\* C8: repair is idempotent on every text, the empty text and texts of code
\* fences or white space included: the second run returns the first run's
\* text character for character, and an empty fix list.
C8_RepairIdempotent ==
    rep.phase = "twice" =>
        /\ rep.second[1].abc = rep.first[1].abc
        /\ rep.second[1].fixes = <<>>

\* The surplus of "[" over "]" on a line that is not a header line.
UnclosedBrackets(line) ==
    IF IsHeaderLine(line) THEN 0
    ELSE Max(0, CountChar(line, "[") - CountChar(line, "]"))

\* The lines of a text with UnclosedBrackets > 0, by 1-based line number.
OpenLines(abc) ==
    {i \in 1..Len(Split(abc)) : UnclosedBrackets(Split(abc)[i]) > 0}

\* The text has reference and key headers, no code fence or outer white
\* space, two unclosed "[" on exactly one line (line i) and one unclosed "{".
ScenarioD(abc, i) ==
    /\ HasXHeader(abc)
    /\ HasHeader(abc, "K")
    /\ StripCodeBlocks(abc) = abc
    /\ OpenLines(abc) = {i}
    /\ UnclosedBrackets(Split(abc)[i]) = 2
    /\ CountChar(abc, "{") - CountChar(abc, "}") = 1

\* The text of Scenario D repaired: "]]" after line i, "}" after the last line.
ScenarioDRepaired(abc, i) ==
    LET lines == Split(abc)
    IN  Join([lines EXCEPT ![i] = @ \o <<"]", "]">>]) \o <<"}">>

\* C9 as stated: in Scenario D, repair appends exactly two "]" to the line
\* and one "}" at the end of the text, and returns exactly three fixes.
C9_ScenarioDThreeFixes ==
    rep.phase \in {"once", "twice"} =>
        \A i \in 1..Len(Split(rep.input)) :
            ScenarioD(rep.input, i) =>
                /\ rep.first[1].abc = ScenarioDRepaired(rep.input, i)
                /\ Len(rep.first[1].fixes) = 3

\* C9 amended: in Scenario D, repair appends exactly two "]" to the line and
\* one "}" at the end of the text, and returns exactly two fixes: one for the
\* line, naming it and the two brackets closed, and one for the braces.
C9_ScenarioDTwoFixes ==
    rep.phase \in {"once", "twice"} =>
        \A i \in 1..Len(Split(rep.input)) :
            ScenarioD(rep.input, i) =>
                /\ rep.first[1].abc = ScenarioDRepaired(rep.input, i)
                /\ rep.first[1].fixes = <<FixBracket(i, 2), FixBraces>>

\* C9 witness: a text of Scenario D has been repaired, the unclosed "{" on
\* another line than the two unclosed "[".
C9_Witness ==
    /\ rep.phase = "once"
    /\ \E i \in 1..Len(Split(rep.input)) :
           /\ ScenarioD(rep.input, i)
           /\ CountChar(Split(rep.input)[i], "{") = 0

(***************************************************************************)
(* Properties of preprocessImage (SpecImage).                              *)
(***************************************************************************)
\* C10: for every original size with both sides >= 1 and every maxDimension
\* >= 1 (whole pixels), the processed size is no larger than the original on
\* either side, its longer side is at most maxDimension, and it is the
\* original size, with no resize step recorded, when both original sides are
\* already within maxDimension.
C10_NeverEnlarges ==
    cond.phase = "done" =>
        LET r == cond.result[1]
            maxDimension == cond.options.maxDimension
        IN  /\ r.originalSize = [width |-> cond.img.width,
                                 height |-> cond.img.height]
            /\ r.processedSize.width <= r.originalSize.width
            /\ r.processedSize.height <= r.originalSize.height
            /\ Max(r.processedSize.width, r.processedSize.height) <= maxDimension
            /\ (r.originalSize.width <= maxDimension
                    /\ r.originalSize.height <= maxDimension) =>
                   /\ r.processedSize = r.originalSize
                   /\ \A k \in 1..Len(r.processingApplied) :
                          r.processingApplied[k].step # "Resized"

\* C10 witness: a 3000x4000 image has been conditioned under the default
\* maxDimension, and resized.
C10_Witness ==
    /\ cond.phase = "done"
    /\ cond.img.width = 3000
    /\ cond.img.height = 4000
    /\ cond.options.maxDimension = DefaultMaxDimension
    /\ cond.result[1].processedSize = [width |-> 1536, height |-> 2048]
    /\ cond.result[1].processingApplied[1].step = "Resized"

(***************************************************************************)
(* Properties of the contrast stretch (SpecStretch).                       *)
(***************************************************************************)
\* C11: with contrastFactor 1.0 the contrast stretch leaves every
\* colour-channel value unchanged: the stretched data equals the data.
C11_FactorOneIsIdentity ==
    (px.phase = "done" /\ px.factor = 100) => px.out = px.data

(***************************************************************************)
(* Properties of the quality report (SpecAssess).                          *)
(***************************************************************************)
Report == qa.report[1]

\* C12: a report is acceptable exactly when its contrast score is at least
\* 0.10, its sharpness score at least 0.05, its width at least 300 and its
\* height at least 200; in particular the verdict is true at 300 x 200 with
\* scores 0.10 and 0.05 and false when any one of them is 299, 199, 0.099 or
\* 0.049 instead.
C12_AcceptableIffAllLimits ==
    qa.phase = "done" =>
        /\ Report.isAcceptable <=>
               /\ Report.contrastScore >= 100
               /\ Report.sharpnessScore >= 50
               /\ Report.width >= 300
               /\ Report.height >= 200
        /\ (Report.width = 299 \/ Report.height = 199
                \/ Report.contrastScore = 99 \/ Report.sharpnessScore = 49)
               => ~Report.isAcceptable

\* A canvas with every input on its limit, found acceptable.
C12_Witness ==
    /\ qa.phase = "done"
    /\ Report.width = 300 /\ Report.height = 200
    /\ Report.contrastScore = 100 /\ Report.sharpnessScore = 50
    /\ Report.isAcceptable

\* C13: for every bitmap with at least one pixel, the contrast score and the
\* sharpness score of its report lie between 0 and 1 (0..1000 thousandths).
C13_ScoresInUnitInterval ==
    (qa.phase = "done" /\ qa.src.kind = "pixels") =>
        /\ Report.contrastScore >= 0 /\ Report.contrastScore <= 1000
        /\ Report.sharpnessScore >= 0 /\ Report.sharpnessScore <= 1000

\* A 3 x 3 checkerboard (white corners and centre), whose Laplacian variance
\* is far above 500, with sharpness score 1.
Checkerboard == <<White, Black, White, Black, White, Black, White, Black, White>>

C13_Witness ==
    /\ qa.phase = "done"
    /\ qa.src.kind = "pixels"
    /\ qa.src.data = Checkerboard
    /\ qa.src.width = 3
    /\ Report.sharpnessScore = 1000
    /\ Report.contrastScore > 900

(***************************************************************************)
(* Properties of the conditioning steps (SpecImage).                       *)
(***************************************************************************)
Result == cond.result[1]

\* The positions of the entries of a kind in processingApplied.
StepsNamed(steps, name) == {i \in DOMAIN steps : steps[i].step = name}

\* C14: the contrast stretch is applied exactly when enhanceContrast is true
\* and the contrast score before enhancement is below 0.4; processingApplied
\* has a resize entry iff a side exceeded maxDimension and an enhancement
\* entry, naming the factor used, iff the stretch was applied, the resize
\* entry first; and the returned quality report is the one of the canvas
\* after the enhancement.
C14_ConditioningSteps ==
    cond.phase = "done" =>
        LET steps == Result.processingApplied
            canvas == Result.processedDataUrl.canvas
            resized == StepsNamed(steps, "Resized")
            enhanced == StepsNamed(steps, "Applied contrast enhancement")
        IN  /\ canvas.stretched <=>
                   (cond.options.enhanceContrast /\ cond.img.contrast < 400)
            /\ resized # {} <=>
                   \/ cond.img.width > cond.options.maxDimension
                   \/ cond.img.height > cond.options.maxDimension
            /\ enhanced # {} <=> canvas.stretched
            /\ \A i \in enhanced : steps[i].factor = cond.options.contrastFactor
            /\ \A i \in resized : \A j \in enhanced : i < j
            /\ Cardinality(resized) <= 1 /\ Cardinality(enhanced) <= 1
            /\ Result.quality.contrastScore = canvas.contrast
            /\ Result.quality.sharpnessScore = canvas.sharpness
            /\ Result.quality.width = canvas.width
            /\ Result.quality.height = canvas.height

\* A 3000 x 4000 image of contrast 0.12 under the default options: resized,
\* then stretched, and the report carries the contrast measured afterwards.
C14_Witness ==
    /\ cond.phase = "done"
    /\ cond.img.width = 3000 /\ cond.img.height = 4000
    /\ cond.img.contrast = 120
    /\ cond.options.maxDimension = 2048
    /\ cond.options.enhanceContrast
    /\ cond.options.contrastFactor = 130
    /\ Len(Result.processingApplied) = 2
    /\ Result.processingApplied[1].step = "Resized"
    /\ Result.processingApplied[2].step = "Applied contrast enhancement"
    /\ Result.processingApplied[2].factor = 130
    /\ Result.quality.contrastScore = 501

(***************************************************************************)
(* Properties of the fix trail and of the final text (Spec).               *)
(***************************************************************************)
\* C15: the fixes of a successful session record every repair of pass 1, of
\* pass 2 and, when the retry output is the final text, of the retry, and
\* one more entry when pass 2 answered nothing and the pass-1 text was used.
C15_FixesRecordEveryRepair ==
    \A s \in DOMAIN sess :
        Succeeded(sess[s]) =>
            LET r == sess[s]
                fixes == r.response[1].body.fixes
                retryFixes == IF r.retryValidated = <<>> THEN <<>>
                              ELSE r.retryValidated[1].fixes
            IN  /\ \A i \in DOMAIN retryFixes :
                       \E j \in DOMAIN fixes : fixes[j] = retryFixes[i]
                /\ Len(fixes) = Len(r.pass1Validated[1].fixes)
                                    + Len(r.pass2Validated[1].fixes)
                                    + Len(retryFixes)
                                    + (IF EmptyAnswer(r, 2) THEN 1 ELSE 0)

\* Three consecutive fence characters start at position i of the text.
FenceAt(text, i) ==
    /\ i + 2 <= Len(text)
    /\ text[i] = Backtick /\ text[i + 1] = Backtick /\ text[i + 2] = Backtick

HasFence(text) == \E i \in DOMAIN text : FenceAt(text, i)

\* C16: the final text returned by a successful session contains no code
\* fence (no three consecutive fence characters), whatever the engine
\* returned at pass 1, pass 2 and the retry.
C16_NoFenceInFinalText ==
    \A s \in DOMAIN sess :
        Succeeded(sess[s]) => ~HasFence(sess[s].response[1].body.abc)

\* A successful session whose three engine outputs were all fenced.
C16_Witness ==
    \E s \in DOMAIN sess :
        /\ Succeeded(sess[s])
        /\ Len(sess[s].outcomes) = 3
        /\ \A k \in 1..3 : /\ sess[s].outcomes[k].kind = "content"
                           /\ HasFence(sess[s].outcomes[k].content)
        /\ sess[s].response[1].body.abc # <<>>

(***************************************************************************)
(* Properties of two interleaved uploads (SpecTwo).                        *)
(***************************************************************************)
\* The handler of session s is where, and has issued and returned what, it
\* would have when run alone on its request and its engine answers.
AsAlone(s) ==
    LET alone == RunAlone(sess[s].request[1], sess[s].outcomes)
    IN  /\ sess[s].calls = alone.calls
        /\ sess[s].response = alone.response
        /\ sess[s].pc \in {alone.pc, "shown"}

\* C17: of two sessions interleaved at the engine calls, each issues the
\* calls and returns the response it would when run alone on the same image
\* and the same engine answers, and every step changes one session only.
C17_SessionsIndependent ==
    /\ [](\A s \in DOMAIN sess : sess[s].pc # "init" => AsAlone(s))
    /\ [][\E s \in DOMAIN sess :
              \A t \in DOMAIN sess \ {s} : sess'[t] = sess[t]]_vars

\* Session 1 has answered from its own pass-1 text (pass 2 returned nothing)
\* while session 2, on another image and with another pass-1 text, waits for
\* its pass-2 answer.
C17_Witness ==
    /\ DOMAIN sess = {1, 2}
    /\ Succeeded(sess[1])
    /\ EmptyAnswer(sess[1], 2)
    /\ sess[2].pc = "pass2"
    /\ sess[2].pass1Abc # sess[1].pass1Abc
    /\ sess[2].imageUrl # sess[1].imageUrl
    /\ sess[1].response[1].body.abc = sess[1].pass1Abc[1]

(***************************************************************************)
(* Properties of the order of the engine calls and of the critical check   *)
(* (Spec).                                                                 *)
(***************************************************************************)
\* C18: the engine calls of a session are strictly ordered.  The pass-2 call
\* exists only once pass 1 has returned a text and that text has been
\* repaired, and its prompt embeds exactly the repaired text; the retry call
\* exists only once pass 2 has returned and its text has been validated and
\* checked; at most one call is awaiting its answer; all calls carry the
\* image of the request.
C18_CallsStrictlyOrdered ==
    \A s \in DOMAIN sess :
        LET r == sess[s]
            inFlight == Len(r.calls) - Len(r.outcomes)
        IN  /\ inFlight \in {0, 1}
            /\ inFlight = 1 <=> r.pc \in {"pass1", "pass2", "retry"}
            /\ Len(r.calls) <= 3
            /\ Len(r.calls) >= 2 =>
                   /\ TextAnswer(r, 1)
                   /\ r.pass1Validated # <<>>
                   /\ r.pass1Validated[1] =
                          validateAndFixAbc(Trim(r.outcomes[1].content))
                   /\ r.calls[2].prompt.template = "getVerificationPrompt"
                   /\ r.calls[2].prompt.abc = r.pass1Validated[1].abc
            /\ Len(r.calls) = 3 =>
                   /\ Len(r.outcomes) >= 2
                   /\ r.outcomes[2].kind # "throw"
                   /\ r.pass2Validated # <<>>
                   /\ r.criticalErrors # <<>>
                   /\ r.calls[3].prompt.template = "retryPrompt"
            /\ \A k \in DOMAIN r.calls :
                   r.calls[k].imageUrl =
                       ImageUrl(r.request[1].mimeType, r.request[1].image)

\* The retry call is in flight: three calls issued in order, two answered,
\* the second carrying the repaired (not the raw) pass-1 text.
C18_Witness ==
    \E s \in DOMAIN sess :
        /\ sess[s].pc = "retry"
        /\ Len(sess[s].calls) = 3
        /\ Len(sess[s].outcomes) = 2
        /\ sess[s].calls[2].prompt.abc # Trim(sess[s].outcomes[1].content)
        /\ sess[s].calls[2].prompt.abc = sess[s].pass1Validated[1].abc

\* The critical check of session r found the error `message`.
Flagged(r, message) ==
    \E i \in DOMAIN r.criticalErrors[1] : r.criticalErrors[1][i] = message

\* C19: the critical check depends on the pass-2 validated text alone.  It
\* flags a missing reference header, a missing key header, a missing meter
\* header and a length below 20 characters, each on its own; the session
\* goes on to the retry iff at least one is flagged and responds with
\* success iff none is; the retry prompt restates exactly the flagged errors.
C19_CriticalCheck ==
    \A s \in DOMAIN sess :
        sess[s].criticalErrors # <<>> =>
            LET r == sess[s]
                text == r.pass2Validated[1].abc
                errors == r.criticalErrors[1]
                count(b) == IF b THEN 1 ELSE 0
            IN  /\ Flagged(r, "Missing X: header") <=> ~HasXHeader(text)
                /\ Flagged(r, "Missing K: (key) header") <=> ~HasHeader(text, "K")
                /\ Flagged(r, "Missing M: (time signature) header")
                       <=> ~HasHeader(text, "M")
                /\ Flagged(r, "Response too short to be valid ABC notation")
                       <=> Len(text) < 20
                /\ Len(errors) = count(~HasXHeader(text))
                                     + count(~HasHeader(text, "K"))
                                     + count(~HasHeader(text, "M"))
                                     + count(Len(text) < 20)
                /\ errors # <<>> <=> Len(r.calls) = 3
                /\ errors = <<>> <=>
                       (Succeeded(r) /\ Len(r.calls) = 2 /\ Len(r.outcomes) = 2)
                /\ errors # <<>> =>
                       /\ r.calls[3].prompt.template = "retryPrompt"
                       /\ r.calls[3].prompt.errors = errors

\* The retry call is in flight after a check that flagged two errors at once:
\* the meter header is missing and the text is too short.
C19_Witness ==
    \E s \in DOMAIN sess :
        /\ sess[s].pc = "retry"
        /\ sess[s].criticalErrors[1] =
               <<"Missing M: (time signature) header",
                 "Response too short to be valid ABC notation">>
        /\ sess[s].calls[3].prompt.errors = sess[s].criticalErrors[1]

(***************************************************************************)
(* Properties of the reference-number header (SpecRepair).                 *)
(***************************************************************************)
\* The position after the blanks of the line from position i.
RECURSIVE SkipBlanks(_, _)
SkipBlanks(text, i) ==
    IF i <= Len(text) /\ text[i] \in {" ", "\t"} THEN SkipBlanks(text, i + 1)
    ELSE i

\* The text begins with X: followed by digits on its first line.
StartsWithXHeader(text) ==
    /\ Len(text) >= 3
    /\ text[1] = "X"
    /\ text[2] = ":"
    /\ LET j == SkipBlanks(text, 3) IN j <= Len(text) /\ text[j] \in Digits

\* C20: whenever the fence-stripped text does not begin with a
\* reference-number header, repair prepends X:1 and records the fix; so the
\* repaired text always begins with a reference-number header, also when an
\* X: line occurs only later in the text.
C20_RepairedStartsWithXHeader ==
    rep.phase \in {"once", "twice"} =>
        LET stripped == StripCodeBlocks(rep.input)
            repaired == rep.first[1]
        IN  /\ ~StartsWithXHeader(stripped) =>
                   /\ Len(repaired.abc) >= 4
                   /\ SubSeq(repaired.abc, 1, 4) = HeaderX1 \o <<NL>>
                   /\ \E i \in DOMAIN repaired.fixes : repaired.fixes[i] = FixAddedX
            /\ StartsWithXHeader(repaired.abc)

(***************************************************************************)
(* Properties of the key header and of the closers (SpecRepair).           *)
(***************************************************************************)
\* The text the key-header step of the repair of rep.input works on, its
\* lines, and the positions (from 1) of the lines that look like music.
KeyStepText ==
    EnsureXHeader([abc |-> StripCodeBlocks(rep.input), fixes |-> <<>>]).abc

KeyStepLines == Split(KeyStepText)

MusicLines == {i \in DOMAIN KeyStepLines : IsMusicLine(KeyStepLines[i])}

HasFix(result, fix) == \E i \in DOMAIN result.fixes : result.fixes[i] = fix

\* C21: when the text has no key header on any line and has a line that
\* looks like music, repair inserts K:C immediately before the first such
\* line and records a fix, wherever that line is (the first line included);
\* when there is no such line, nothing is inserted and no fix is recorded.
C21_KeyInsertedBeforeFirstMusicLine ==
    (rep.phase \in {"once", "twice"} /\ ~HasHeader(KeyStepText, "K")) =>
        LET repaired == rep.first[1]
            lines == Split(repaired.abc)
        IN  IF MusicLines # {}
            THEN LET m == CHOOSE i \in MusicLines : \A j \in MusicLines : i <= j
                 IN  /\ HasFix(repaired, FixAddedK)
                     /\ Len(lines) = Len(KeyStepLines) + 1
                     /\ lines[m] = HeaderKC
                     /\ \A i \in 1..(m - 1) :
                            SubSeq(lines[i], 1, Len(KeyStepLines[i])) = KeyStepLines[i]
                     /\ SubSeq(lines[m + 1], 1, Len(KeyStepLines[m])) = KeyStepLines[m]
            ELSE /\ ~HasFix(repaired, FixAddedK)
                 /\ ~HasHeader(repaired.abc, "K")
                 /\ Len(lines) = Len(KeyStepLines)

\* The text the bracket step of the repair of rep.input works on.
BracketStepLines ==
    Split(EnsureKHeader(EnsureXHeader(
        [abc |-> StripCodeBlocks(rep.input), fixes |-> <<>>])).abc)

\* The surplus of the character open over the character close in a text.
Surplus(text, open, close) ==
    IF CountChar(text, open) > CountChar(text, close)
    THEN CountChar(text, open) - CountChar(text, close)
    ELSE 0

\* C22: after repair every non-header line has at least as many "]" as "["
\* and the document at least as many "}" as "{"; the "]" appended to a line
\* are as many as its surplus of "[", the "}" appended at the end as many as
\* the document's surplus of "{"; header lines and lines without surplus
\* are left unchanged by the bracket step.
C22_ClosersBalanced ==
    rep.phase \in {"once", "twice"} =>
        LET before == BracketStepLines
            bracketed == [i \in DOMAIN before |->
                             IF IsHeaderLine(before[i]) THEN before[i]
                             ELSE before[i]
                                      \o Repeat("]", Surplus(before[i], "[", "]"))]
            closed == Join(bracketed)
            repaired == rep.first[1].abc
            lines == Split(repaired)
        IN  /\ repaired = closed \o Repeat("}", Surplus(closed, "{", "}"))
            /\ \A i \in DOMAIN lines :
                   ~IsHeaderLine(lines[i]) =>
                       CountChar(lines[i], "]") >= CountChar(lines[i], "[")
            /\ CountChar(repaired, "}") >= CountChar(repaired, "{")

\* A line with a surplus of two "[" got two "]", and the document's one "{"
\* was closed at the end.
C22_Witness ==
    /\ rep.phase = "once"
    /\ \E i \in DOMAIN BracketStepLines :
           /\ ~IsHeaderLine(BracketStepLines[i])
           /\ Surplus(BracketStepLines[i], "[", "]") = 2
    /\ CountChar(rep.first[1].abc, "[") = 2
    /\ CountChar(rep.first[1].abc, "]") = 2
    /\ CountChar(rep.input, "{") = 1
    /\ CountChar(rep.first[1].abc, "}") = 1

(***************************************************************************)
(* Properties of the warnings and suggestions (SpecAssess).                *)
(***************************************************************************)
\* The entry of a list for a condition that holds, none for one that fails.
When(condition, message) == IF condition THEN <<message>> ELSE <<>>

\* C23: the warnings and suggestions of a report follow the threshold table:
\* a resolution warning iff width < 400 or height < 400, a resolution
\* suggestion without warning iff both are >= 400 and one is < 800; a
\* contrast warning iff the contrast score is < 0.15, a suggestion only iff
\* it is in [0.15, 0.25); a blur warning iff the sharpness score is < 0.10, a
\* suggestion only iff it is in [0.10, 0.20); the entries are in the order
\* resolution, contrast, sharpness.
C23_ThresholdTable ==
    qa.phase = "done" =>
        LET width == Report.width
            height == Report.height
            c == Report.contrastScore
            b == Report.sharpnessScore
            lowRes == width < 400 \/ height < 400
            midRes == width >= 400 /\ height >= 400 /\ (width < 800 \/ height < 800)
        IN  /\ Report.warnings =
                   When(lowRes, "Image resolution is low")
                   \o When(c < 150, "Very low contrast detected")
                   \o When(b < 100, "Image appears blurry")
            /\ Report.suggestions =
                   When(lowRes, "Use a higher resolution image for better accuracy")
                   \o When(midRes, "Higher resolution may improve accuracy")
                   \o When(c < 150,
                           "Ensure good lighting and a clear difference between notes and background")
                   \o When(c >= 150 /\ c < 250,
                           "Consider using a scanner or improving lighting for better contrast")
                   \o When(b < 100,
                           "Hold camera steady or use a scanner for sharper results")
                   \o When(b >= 100 /\ b < 200,
                           "Image could be sharper - try holding camera more steady")

\* A 400 x 799 canvas of contrast 0.15 and sharpness 0.099: one warning
\* (blur) and three suggestions, in the order resolution, contrast, sharpness.
C23_Witness ==
    /\ qa.phase = "done"
    /\ Report.width = 400 /\ Report.height = 799
    /\ Report.contrastScore = 150 /\ Report.sharpnessScore = 99
    /\ Report.warnings = <<"Image appears blurry">>
    /\ Len(Report.suggestions) = 3
    /\ Report.suggestions[1] = "Higher resolution may improve accuracy"
    /\ Report.suggestions[3] = "Hold camera steady or use a scanner for sharper results"

(***************************************************************************)
(* Properties of the quick quality check (SpecImage).                      *)
(***************************************************************************)
\* C24: the quick check never upscales (its canvas has a longer side of at
\* most 500 and is no larger than the image on either side) and its report
\* carries the image's width and height; the resolution warning and the
\* verdict agree with these reported dimensions: the warning is present iff
\* the reported width or height is below 400, and a report whose scores
\* pass is unacceptable only if its width is below 300 or its height below
\* 200.
C24_QuickCheckConsistent ==
    cond.phase = "checked" =>
        LET canvas == QuickCheckCanvas(cond.img)
            report == cond.result[1]
        IN  /\ Max(canvas.width, canvas.height) <= 500
            /\ canvas.width <= cond.img.width
            /\ canvas.height <= cond.img.height
            /\ report.width = cond.img.width
            /\ report.height = cond.img.height
            /\ (\E i \in DOMAIN report.warnings :
                    report.warnings[i] = "Image resolution is low")
                   <=> (report.width < 400 \/ report.height < 400)
            /\ (~report.isAcceptable /\ report.contrastScore >= 100
                    /\ report.sharpnessScore >= 50)
                   => (report.width < 300 \/ report.height < 200)

(***************************************************************************)
(* Properties of the encoding and of the processed size (SpecImage).       *)
(***************************************************************************)
\* C25: the encoding of the result is decided by the contrast score before
\* the enhancement alone: PNG iff that score is above 0.5, JPEG otherwise,
\* whatever the score after the enhancement; so a PNG result is never one to
\* which the contrast stretch was applied.
C25_EncodingByPreEnhancementScore ==
    cond.phase = "done" =>
        LET mimeType == Result.processedDataUrl.mimeType
        IN  /\ mimeType = "image/png" <=> cond.img.contrast > 500
            /\ mimeType = "image/jpeg" <=> cond.img.contrast <= 500
            /\ mimeType = "image/png" => ~Result.processedDataUrl.canvas.stretched
            /\ mimeType = "image/png" =>
                   \A i \in DOMAIN Result.processingApplied :
                       Result.processingApplied[i].step
                           # "Applied contrast enhancement"

\* A stretched canvas whose contrast score rose from 0.12 to 0.501 is still
\* encoded as JPEG.
C25_Witness ==
    /\ cond.phase = "done"
    /\ cond.options.enhanceContrast
    /\ cond.img.contrast = 120
    /\ Result.processedDataUrl.canvas.stretched
    /\ Result.quality.contrastScore = 501
    /\ Result.processedDataUrl.mimeType = "image/jpeg"

(***************************************************************************)
(* Properties of the sharpness sampling (SpecAssess).                      *)
(***************************************************************************)
\* C26: for every image with both sides >= 3, the variance of the sharpness
\* estimator is the mean of the squared Laplacian over the pixels sampled:
\* the number of interior pixels accumulated equals the divisor, and is at
\* most the sample bound of 10,000, whatever the number of interior pixels.
C26_DivisorIsSampleCount ==
    qa.phase = "sampled" =>
        /\ Report.accumulated = Report.divisor
        /\ Report.accumulated <= 10000

(***************************************************************************)
(* Properties of the text a session returns (Spec).                        *)
(***************************************************************************)
\* The position after the blanks and line breaks from position i.
RECURSIVE SkipSpace(_, _)
SkipSpace(text, i) ==
    IF i <= Len(text) /\ text[i] \in {" ", "\t", "\r", "\n"}
    THEN SkipSpace(text, i + 1)
    ELSE i

\* Some line of the text starts with the header letter followed by ":".
HasLineStarting(text, letter) ==
    \E i \in DOMAIN text :
        /\ (i = 1 \/ text[i - 1] \in {"\n", "\r"})
        /\ i < Len(text)
        /\ text[i] = letter
        /\ text[i + 1] = ":"

\* Some line of the text starts with X: followed by digits.
HasReferenceLine(text) ==
    \E i \in DOMAIN text :
        /\ (i = 1 \/ text[i - 1] \in {"\n", "\r"})
        /\ i < Len(text)
        /\ text[i] = "X"
        /\ text[i + 1] = ":"
        /\ LET j == SkipSpace(text, i + 2)
           IN  j <= Len(text) /\ text[j] \in Digits

\* C27: whenever a session succeeds having called the engine exactly twice,
\* the text it returns passes the critical check: it has a reference header,
\* a key header and a meter header and is at least 20 characters long.
C27_NoRetryTextIsValid ==
    \A s \in DOMAIN sess :
        (Succeeded(sess[s]) /\ Len(sess[s].calls) = 2) =>
            LET text == sess[s].response[1].body.abc
            IN  /\ HasReferenceLine(text)
                /\ HasLineStarting(text, "K")
                /\ HasLineStarting(text, "M")
                /\ Len(text) >= 20

\* A session that succeeded after two calls, the second returning a fenced
\* tune.
C27_Witness ==
    \E s \in DOMAIN sess :
        /\ Succeeded(sess[s])
        /\ Len(sess[s].calls) = 2
        /\ sess[s].outcomes[2] = Content(TextFenced)
        /\ sess[s].response[1].body.abc = TextGood

\* C28: when the retry call returns a missing or empty answer, the session
\* still succeeds and returns the pass-2 validated text, the one that failed
\* the critical check; an empty answer fails the session only at pass 1.
C28_EmptyRetryKeepsPass2Text ==
    \A s \in DOMAIN sess :
        LET r == sess[s]
        IN  /\ (Finished(r) /\ EmptyAnswer(r, 3)) =>
                   /\ Succeeded(r)
                   /\ r.response[1].body.abc = r.pass2Validated[1].abc
                   /\ r.criticalErrors[1] # <<>>
            /\ (Finished(r) /\ EmptyAnswer(r, 1)) => ~Succeeded(r)
            /\ (Finished(r) /\ EmptyAnswer(r, 2) /\ Len(r.outcomes) = 2) =>
                   Succeeded(r)

\* The retry answered with white space only; the session succeeded with the
\* pass-2 text, which lacks a meter header.
C28_Witness ==
    \E s \in DOMAIN sess :
        /\ Succeeded(sess[s])
        /\ Len(sess[s].outcomes) = 3
        /\ sess[s].outcomes[3] = Content(TextBlank)
        /\ sess[s].response[1].body.abc = sess[s].pass2Validated[1].abc
        /\ sess[s].response[1].body.abc # <<>>
        /\ hasCriticalErrors(sess[s].response[1].body.abc) # <<>>

(***************************************************************************)
(* Properties of the default contrast stretch (SpecStretch).               *)
(***************************************************************************)
\* C29: with the default contrastFactor 1.3 the stretch preserves the order
\* of channel values and expands around mid-grey: of two channel values
\* a <= b the outputs satisfy new(a) <= new(b), a value below 128 does not
\* become brighter and a value above 128 does not become darker.
C29_DefaultStretchMonotone ==
    (px.phase = "done" /\ px.factor = 130) =>
        /\ \A i, j \in {1, 2, 3} :
               px.data[i] <= px.data[j] => px.out[i] <= px.out[j]
        /\ \A i \in {1, 2, 3} :
               /\ px.data[i] < 128 => px.out[i] <= px.data[i]
               /\ px.data[i] > 128 => px.out[i] >= px.data[i]

\* C30: for every image with both sides >= 1 and every maxDimension >= 1,
\* conditioning returns a processed size with both sides >= 1: the resize
\* never rounds a side down to 0, so the canvas assessed and encoded is never
\* of zero area.
C30_ProcessedSizeNotZero ==
    cond.phase \in {"done", "rejected"} =>
        LET size == CanvasSize(cond.img, cond.options.maxDimension)
        IN  /\ size.width >= 1
            /\ size.height >= 1
            /\ cond.phase = "done"
            /\ Result.processedSize.width >= 1
            /\ Result.processedSize.height >= 1

====
